---- MODULE Spec2Model ----
(***************************************************************************)
(* Model of src/main.py: the three FastAPI handlers image_to_video,        *)
(* image_audio_to_video and concatenate_videos, with the helpers they      *)
(* call (convert_audio_format, get_video_info, upload_local_file).         *)
(*                                                                         *)
(* The handlers are `async def` without any await, so one handler runs to  *)
(* completion before the next request is served: the model has one active  *)
(* request and a program counter over the statements of its handler.       *)
(* The network, the decoder, the encoder, the file copies and os.remove    *)
(* are the environment: each of their outcomes is a nondeterministic       *)
(* choice, and the failures among them are counted in `faults`.            *)
(*                                                                         *)
(* fs maps the paths that exist to their content; fs0 is fs at the start   *)
(* of the current request, log the external calls the request has made.    *)
(***************************************************************************)
EXTENDS Integers, Sequences, FiniteSets, TLC

VARIABLES fs, fs0, pc, req, loc, exc, response, log, nreq, faults

vars == <<fs, fs0, pc, req, loc, exc, response, log, nreq, faults>>

\* ---------------------------------------------------------------- bounds
\* requests served in a run, urls in one video_urls list, failures of the
\* environment in a run
MaxRequests == 2
MaxVideos == 2
MaxFaults == 1

\* ------------------------------------------------------- paths and files
OUTPUT_DIR == "output"
STATIC_DIR == "static"
TEMP_DIR == "tmp"
LOCAL_DIR == "local"

Path(dir, day, name, ext) == [dir |-> dir, day |-> day, name |-> name, ext |-> ext]
Name(r, site, i) == [req |-> r, site |-> site, idx |-> i]
NoPath == Path("none", "", Name(0, "", 0), "")

\* files the caller names by a local path; they exist before any request
LocalImage == Path(LOCAL_DIR, "", Name(0, "a", 0), "jpg")
LocalAudio == Path(LOCAL_DIR, "", Name(0, "a", 0), "mp3")
LocalVideo == Path(LOCAL_DIR, "", Name(0, "a", 0), "mp4")

Content(kind, dur) == [kind |-> kind, dur |-> dur]

exists(f, p) == p \in DOMAIN f
WriteFile(f, p, c) == [q \in (DOMAIN f) \cup {p} |-> IF q = p THEN c ELSE f[q]]
RemoveFile(f, p) == [q \in (DOMAIN f) \ {p} |-> f[q]]

\* one entry of the history of external operations of the current request
Op(op, path) == [op |-> op, path |-> path]

\* os.remove(p): raises when the file is missing or the OS refuses
os_remove(f, p, refused) ==
    IF exists(f, p) /\ ~refused
    THEN [fs |-> RemoveFile(f, p), raised |-> FALSE, ops |-> <<Op("remove", p)>>]
    ELSE [fs |-> f, raised |-> TRUE, ops |-> <<Op("remove_failed", p)>>]

\* `if p and os.path.exists(p): os.remove(p)` for each p of paths in order,
\* from position i on; the removal at position failAt is refused by the OS
RECURSIVE remove_each(_, _, _, _)
remove_each(f, paths, i, failAt) ==
    IF i > Len(paths) THEN [fs |-> f, raised |-> FALSE, ops |-> <<>>]
    ELSE IF paths[i] # NoPath /\ exists(f, paths[i])
         THEN LET r == os_remove(f, paths[i], failAt = i)
              IN IF r.raised THEN r
                 ELSE LET rest == remove_each(r.fs, paths, i + 1, failAt)
                      IN [rest EXCEPT !.ops = r.ops \o rest.ops]
         ELSE remove_each(f, paths, i + 1, failAt)

\* the positions at which remove_each can meet a refusal: 0 stands for none
RefusalPoints(f, paths) ==
    {0} \cup {k \in 1..Len(paths) : paths[k] # NoPath /\ exists(f, paths[k])}

\* get_date_directory(): the year-month and day of the wall clock; every
\* request of a run is served on the same day
get_date_directory == "2026-10/31"

\* ---------------------------------------------------------- request data
RemoteUrl == [scheme |-> "https", path |-> NoPath]
LocalUrl(p) == [scheme |-> "", path |-> p]
NoUrl == [scheme |-> "none", path |-> NoPath]

\* url.startswith(('http://', 'https://'))
IsRemote(url) == url.scheme \in {"http", "https"}

Durations == {0, 3}
VolumeDbs == {-21, 0, 6, 21}

RECURSIVE SeqsUpTo(_, _)
SeqsUpTo(S, n) ==
    IF n = 0 THEN {<<>>}
    ELSE LET shorter == SeqsUpTo(S, n - 1)
         IN shorter \cup {Append(s, x) : s \in {t \in shorter : Len(t) = n - 1}, x \in S}

ImageToVideoRequest ==
    {[kind |-> "image_to_video", image_url |-> i, audio_url |-> NoUrl,
      duration |-> d, volume_db |-> 0, video_urls |-> <<>>] :
        i \in {RemoteUrl, LocalUrl(LocalImage)}, d \in Durations}

ImageAudioToVideoRequest ==
    {[kind |-> "image_audio_to_video", image_url |-> i, audio_url |-> a,
      duration |-> 0, volume_db |-> v, video_urls |-> <<>>] :
        i \in {RemoteUrl, LocalUrl(LocalImage)},
        a \in {RemoteUrl, LocalUrl(LocalAudio)}, v \in VolumeDbs}

ConcatenateVideosRequest ==
    {[kind |-> "concatenate_videos", image_url |-> NoUrl, audio_url |-> NoUrl,
      duration |-> 0, volume_db |-> v, video_urls |-> u] :
        v \in VolumeDbs, u \in SeqsUpTo({RemoteUrl, LocalUrl(LocalVideo)}, MaxVideos)}

Requests == ImageToVideoRequest \cup ImageAudioToVideoRequest \cup ConcatenateVideosRequest

NoRequest == [kind |-> "none", image_url |-> NoUrl, audio_url |-> NoUrl,
              duration |-> 0, volume_db |-> 0, video_urls |-> <<>>]

\* Field(ge=-20, le=20) on volume_db; no constraint on the other fields
ValidVolume(v) == v >= -20 /\ v <= 20

SchemaAccepts(r) ==
    CASE r.kind = "image_to_video" -> TRUE
      [] r.kind = "image_audio_to_video" -> ValidVolume(r.volume_db)
      [] r.kind = "concatenate_videos" -> ValidVolume(r.volume_db)
      [] OTHER -> FALSE

\* ------------------------------------------------ exceptions, responses
NoExc == [type |-> "none", status |-> 0]
HTTPException(status) == [type |-> "HTTPException", status |-> status]
PlainException(type) == [type |-> type, status |-> 0]

NoVideoUrl == [host |-> "", path |-> NoPath]
NoResponse == [status |-> 0, error |-> "none", video_url |-> NoVideoUrl, duration |-> 0]

\* the handler returned {"video_url": ..., "duration": ...}
VideoResponse(url, duration) ==
    [status |-> 200, error |-> "none", video_url |-> url, duration |-> duration]

\* the handler raised e: an HTTPException becomes a response with its status,
\* any other exception becomes the server's 500
ErrorResponse(e) ==
    [status |-> IF e.type = "HTTPException" THEN e.status ELSE 500,
     error |-> e.type, video_url |-> NoVideoUrl, duration |-> 0]

ValidationErrorResponse ==
    [status |-> 422, error |-> "RequestValidationError",
     video_url |-> NoVideoUrl, duration |-> 0]

\* ----------------------------------------------------- handler's locals
NoInfo == [duration |-> 0, error |-> FALSE]

LocInit ==
    [output_path |-> NoPath, temp_image_path |-> NoPath, temp_audio_path |-> NoPath,
     image_path |-> NoPath, audio_path |-> NoPath, converted_audio_path |-> NoPath,
     temp_output_path |-> NoPath, local_video_path |-> NoPath, video_path |-> NoPath,
     temp_files |-> <<>>, clips |-> <<>>, idx |-> 1,
     video_info |-> NoInfo, video_url |-> NoVideoUrl]

\* uuid.uuid4() never returns the same value twice: a value is named by the
\* request (nreq), the statement (site) and the loop iteration that drew it;
\* the variant draws the same value again in a later request
uuid4_reused(site, i) == Name(1, site, i)
uuid4(site, i) == Name(nreq, site, i)

\* ------------------------------------------------------------------ Init
Init ==
    /\ fs = [p \in {LocalImage, LocalAudio, LocalVideo} |-> Content("caller", 2)]
    /\ fs0 = fs
    /\ pc = "idle"
    /\ req = NoRequest
    /\ loc = LocInit
    /\ exc = NoExc
    /\ response = NoResponse
    /\ log = <<>>
    /\ nreq = 0
    /\ faults = 0

\* a request arrives; the schema rejects it (422) or the handler is called
Receive ==
    /\ pc \in {"idle", "done"}
    /\ nreq < MaxRequests
    /\ \E r \in Requests :
        /\ req' = r
        /\ IF SchemaAccepts(r)
           THEN pc' = r.kind /\ response' = NoResponse
           ELSE pc' = "done" /\ response' = ValidationErrorResponse
    /\ nreq' = nreq + 1
    /\ fs0' = fs
    /\ loc' = LocInit
    /\ exc' = NoExc
    /\ log' = <<>>
    /\ UNCHANGED <<fs, faults>>

\* ------------------------------------------------- environment outcomes
\* requests.get + Image.open + img.save of a remote image
ImageFetchOutcomes ==
    {"ok", "transport_error", "status_404", "decode_error", "save_error", "save_partial"}
\* requests.get + open(...,'wb') + write of a remote audio or video
FileFetchOutcomes == {"ok", "transport_error", "status_404", "write_error", "write_partial"}
\* clip construction + write_videofile
ComposeOutcomes == {"ok", "load_error", "encode_error", "encode_partial"}
\* AudioFileClip (load_error), then ImageClip (image_load_error), then write_videofile
ImageAudioComposeOutcomes == ComposeOutcomes \cup {"image_load_error"}
\* os.makedirs + shutil.copy
CopyOutcomes == {"ok", "copy_error", "copy_partial"}

FetchOp(outcome) ==
    CASE outcome = "transport_error" -> Op("fetch_error", NoPath)
      [] outcome = "status_404" -> Op("fetch_404", NoPath)
      [] OTHER -> Op("fetch_200", NoPath)

\* a failure of the environment (network, decoder, encoder, copy, os.remove)
\* is drawn from a budget of MaxFaults per run
B(b) == IF b THEN 1 ELSE 0
Spend(n) == faults + n <= MaxFaults /\ faults' = faults + n

\* -------------------------------------------------------------- helpers
\* get_video_info(file_path): any failure is caught and reported as duration 0;
\* the variant reports the duration it read before the failure
get_video_info_stale(f, file_path, fails) ==
    IF ~exists(f, file_path) THEN [duration |-> 0, error |-> TRUE]
    ELSE [duration |-> f[file_path].dur,
          error |-> fails \/ f[file_path].kind # "video"]
get_video_info(f, file_path, fails) ==
    IF fails \/ ~exists(f, file_path) \/ f[file_path].kind # "video"
    THEN [duration |-> 0, error |-> TRUE]
    ELSE [duration |-> f[file_path].dur, error |-> FALSE]

\* upload_local_file(file_path): copy into static/videos/<date>/<basename>;
\* the first variant stores every file under one fixed name, the second
\* moves the file instead of copying it
upload_local_file_fixed_name(f, file_path, outcome) ==
    LET destination == Path(STATIC_DIR, get_date_directory, Name(0, "output", 0), file_path.ext)
        url == [host |-> "http://video-api.fyshark.com", path |-> destination]
    IN CASE outcome = "ok" /\ exists(f, file_path) ->
                [fs |-> WriteFile(f, destination, f[file_path]), raised |-> FALSE,
                 url |-> url, ops |-> <<Op("publish", destination)>>]
         [] outcome = "copy_partial" /\ exists(f, file_path) ->
                [fs |-> WriteFile(f, destination, Content("partial", 0)), raised |-> TRUE,
                 url |-> NoVideoUrl, ops |-> <<Op("publish_failed", destination)>>]
         [] OTHER ->
                [fs |-> f, raised |-> TRUE,
                 url |-> NoVideoUrl, ops |-> <<Op("publish_failed", destination)>>]
upload_local_file_move(f, file_path, outcome) ==
    LET destination == Path(STATIC_DIR, get_date_directory, file_path.name, file_path.ext)
        url == [host |-> "http://video-api.fyshark.com", path |-> destination]
    IN CASE outcome = "ok" /\ exists(f, file_path) ->
                [fs |-> RemoveFile(WriteFile(f, destination, f[file_path]), file_path),
                 raised |-> FALSE,
                 url |-> url, ops |-> <<Op("publish", destination)>>]
         [] outcome = "copy_partial" /\ exists(f, file_path) ->
                [fs |-> WriteFile(f, destination, Content("partial", 0)), raised |-> TRUE,
                 url |-> NoVideoUrl, ops |-> <<Op("publish_failed", destination)>>]
         [] OTHER ->
                [fs |-> f, raised |-> TRUE,
                 url |-> NoVideoUrl, ops |-> <<Op("publish_failed", destination)>>]
upload_local_file(f, file_path, outcome) ==
    LET destination == Path(STATIC_DIR, get_date_directory, file_path.name, file_path.ext)
        url == [host |-> "http://video-api.fyshark.com", path |-> destination]
    IN CASE outcome = "ok" /\ exists(f, file_path) ->
                [fs |-> WriteFile(f, destination, f[file_path]), raised |-> FALSE,
                 url |-> url, ops |-> <<Op("publish", destination)>>]
         [] outcome = "copy_partial" /\ exists(f, file_path) ->
                [fs |-> WriteFile(f, destination, Content("partial", 0)), raised |-> TRUE,
                 url |-> NoVideoUrl, ops |-> <<Op("publish_failed", destination)>>]
         [] OTHER ->
                [fs |-> f, raised |-> TRUE,
                 url |-> NoVideoUrl, ops |-> <<Op("publish_failed", destination)>>]

\* upload_to_oss(file_path) delegates to upload_local_file
upload_to_oss(f, file_path, outcome) == upload_local_file(f, file_path, outcome)

\* ------------------------------------------------------- image_to_video
\* lines 161-166: the output name, temp_image_path = None
image_to_video_begin ==
    /\ pc = "image_to_video"
    /\ loc' = [loc EXCEPT !.output_path = Path(OUTPUT_DIR, "", uuid4("output", 0), "mp4"),
                          !.temp_image_path = NoPath]
    /\ pc' = "i2v_resolve"
    /\ UNCHANGED <<fs, fs0, req, exc, response, log, nreq, faults>>

\* lines 169-189: download a remote image into a temporary file
image_to_video_resolve ==
    /\ pc = "i2v_resolve"
    /\ IF IsRemote(req.image_url)
       THEN \E outcome \in ImageFetchOutcomes, refused \in BOOLEAN :
            /\ Spend(B(outcome # "ok") + B(refused))
            /\ refused => outcome = "save_partial"
            /\ LET tmp == Path(TEMP_DIR, "", uuid4("image", 0), "jpg")
               IN CASE outcome = "ok" ->
                       /\ fs' = WriteFile(fs, tmp, Content("image", 0))
                       /\ loc' = [loc EXCEPT !.temp_image_path = tmp, !.image_path = tmp]
                       /\ log' = log \o <<FetchOp(outcome), Op("write", tmp), Op("resolve", tmp)>>
                       /\ pc' = "i2v_compose"
                       /\ exc' = exc
                    [] outcome \in {"transport_error", "status_404", "decode_error"} ->
                       /\ log' = Append(log, FetchOp(outcome))
                       /\ exc' = HTTPException(400)
                       /\ pc' = "i2v_except"
                       /\ UNCHANGED <<fs, loc>>
                    [] outcome = "save_error" ->
                       /\ loc' = [loc EXCEPT !.temp_image_path = tmp]
                       /\ log' = Append(log, FetchOp(outcome))
                       /\ exc' = HTTPException(400)
                       /\ pc' = "i2v_except"
                       /\ fs' = fs
                    [] outcome = "save_partial" ->
                       \* lines 183-186: the inner handler removes the partial file
                       LET r == os_remove(WriteFile(fs, tmp, Content("partial", 0)), tmp, refused)
                       IN /\ fs' = r.fs
                          /\ loc' = [loc EXCEPT !.temp_image_path = tmp]
                          /\ log' = log \o <<FetchOp(outcome), Op("write", tmp)>> \o r.ops
                          /\ exc' = IF r.raised THEN PlainException("OSError")
                                    ELSE HTTPException(400)
                          /\ pc' = "i2v_except"
       ELSE /\ loc' = [loc EXCEPT !.image_path = req.image_url.path]
            /\ log' = Append(log, Op("resolve", req.image_url.path))
            /\ pc' = "i2v_compose"
            /\ UNCHANGED <<fs, exc, faults>>
    /\ UNCHANGED <<fs0, req, response, nreq>>

\* line 209: an exception of write_videofile is caught by `except Exception`
image_to_video_encode_handler == "i2v_except"

\* lines 192-193: ImageClip(image_path).set_duration(...).write_videofile(output_path)
image_to_video_compose ==
    /\ pc = "i2v_compose"
    /\ \E outcome \in ComposeOutcomes :
        /\ Spend(B(outcome # "ok"))
        /\ CASE outcome = "ok" /\ exists(fs, loc.image_path) ->
                   /\ fs' = WriteFile(fs, loc.output_path, Content("video", req.duration))
                   /\ log' = log \o <<Op("load", loc.image_path), Op("encode", loc.output_path)>>
                   /\ pc' = "i2v_cleanup_image"
                   /\ exc' = exc
             [] outcome = "encode_error" /\ exists(fs, loc.image_path) ->
                   /\ fs' = fs
                   /\ log' = log \o <<Op("load", loc.image_path), Op("encode_failed", loc.output_path)>>
                   /\ exc' = PlainException("Exception")
                   /\ pc' = image_to_video_encode_handler
             [] outcome = "encode_partial" /\ exists(fs, loc.image_path) ->
                   /\ fs' = WriteFile(fs, loc.output_path, Content("partial", 0))
                   /\ log' = log \o <<Op("load", loc.image_path), Op("encode_failed", loc.output_path)>>
                   /\ exc' = PlainException("Exception")
                   /\ pc' = image_to_video_encode_handler
             [] OTHER ->
                   /\ fs' = fs
                   /\ log' = Append(log, Op("load_failed", loc.image_path))
                   /\ exc' = PlainException("Exception")
                   /\ pc' = "i2v_except"
    /\ UNCHANGED <<fs0, req, loc, response, nreq>>

\* the files lines 196-197 remove after the encode; the variant removes the
\* output file as well, before it is probed and published
image_to_video_cleanup_paths_early(l) == <<l.temp_image_path, l.output_path>>
image_to_video_cleanup_paths(l) == <<l.temp_image_path>>

\* lines 196-197: remove the downloaded image
image_to_video_cleanup_image ==
    /\ pc = "i2v_cleanup_image"
    /\ \E failAt \in RefusalPoints(fs, image_to_video_cleanup_paths(loc)) :
        /\ Spend(B(failAt # 0))
        /\ LET r == remove_each(fs, image_to_video_cleanup_paths(loc), 1, failAt)
           IN /\ fs' = r.fs
              /\ log' = log \o r.ops
              /\ IF r.raised
                 THEN exc' = PlainException("OSError") /\ pc' = "i2v_except"
                 ELSE exc' = exc /\ pc' = "i2v_probe"
    /\ UNCHANGED <<fs0, req, loc, response, nreq>>

\* line 200: video_info = get_video_info(output_path)
image_to_video_probe ==
    /\ pc = "i2v_probe"
    /\ \E fails \in BOOLEAN :
        /\ Spend(B(fails))
        /\ /\ loc' = [loc EXCEPT !.video_info = get_video_info(fs, loc.output_path, fails)]
           /\ log' = Append(log, Op(IF loc'.video_info.error THEN "probe_failed" ELSE "probe",
                                    loc.output_path))
    /\ pc' = "i2v_publish"
    /\ UNCHANGED <<fs, fs0, req, exc, response, nreq>>

\* line 203: video_url = upload_to_oss(output_path)
image_to_video_publish ==
    /\ pc = "i2v_publish"
    /\ \E outcome \in CopyOutcomes :
        /\ Spend(B(outcome # "ok"))
        /\ LET r == upload_to_oss(fs, loc.output_path, outcome)
           IN /\ fs' = r.fs
              /\ log' = log \o r.ops
              /\ loc' = [loc EXCEPT !.video_url = r.url]
              /\ IF r.raised
                 THEN exc' = PlainException("Exception") /\ pc' = "i2v_except"
                 ELSE exc' = exc /\ pc' = "i2v_finish"
    /\ UNCHANGED <<fs0, req, response, nreq>>

\* lines 206-208: os.remove(output_path); return the response
image_to_video_finish ==
    /\ pc = "i2v_finish"
    /\ \E refused \in BOOLEAN :
        /\ Spend(B(refused))
        /\ LET r == os_remove(fs, loc.output_path, refused)
           IN /\ fs' = r.fs
              /\ log' = log \o r.ops
              /\ IF r.raised
                 THEN /\ exc' = PlainException("OSError")
                      /\ pc' = "i2v_except"
                      /\ response' = response
                 ELSE /\ exc' = exc
                      /\ pc' = "done"
                      /\ response' = VideoResponse(loc.video_url, loc.video_info.duration)
    /\ UNCHANGED <<fs0, req, loc, nreq>>

\* the files the except block of image_to_video removes (lines 211-214); the
\* variant removes image_path, the input, instead of temp_image_path
image_to_video_except_paths_input(l) == <<l.image_path, l.output_path>>
image_to_video_except_paths(l) == <<l.temp_image_path, l.output_path>>

\* lines 209-216: remove the temporary files, raise HTTPException(500)
image_to_video_except ==
    /\ pc = "i2v_except"
    /\ \E failAt \in RefusalPoints(fs, image_to_video_except_paths(loc)) :
        /\ Spend(B(failAt # 0))
        /\ LET r == remove_each(fs, image_to_video_except_paths(loc), 1, failAt)
           IN /\ fs' = r.fs
              /\ log' = log \o r.ops
              /\ response' = IF r.raised THEN ErrorResponse(PlainException("OSError"))
                             ELSE ErrorResponse(HTTPException(500))
    /\ pc' = "done"
    /\ UNCHANGED <<fs0, req, loc, exc, nreq>>

\* ------------------------------------------------- image_audio_to_video
\* lines 219-225: the output name, temp_image_path = temp_audio_path = None
image_audio_to_video_begin ==
    /\ pc = "image_audio_to_video"
    /\ loc' = [loc EXCEPT !.output_path = Path(OUTPUT_DIR, "", uuid4("output", 0), "mp4"),
                          !.temp_image_path = NoPath, !.temp_audio_path = NoPath]
    /\ pc' = "ia2v_image"
    /\ UNCHANGED <<fs, fs0, req, exc, response, log, nreq, faults>>

\* lines 229-246: download a remote image; the inner handler removes nothing
image_audio_to_video_image ==
    /\ pc = "ia2v_image"
    /\ IF IsRemote(req.image_url)
       THEN \E outcome \in ImageFetchOutcomes :
            /\ Spend(B(outcome # "ok"))
            /\ LET tmp == Path(TEMP_DIR, "", uuid4("image", 0), "jpg")
               IN CASE outcome = "ok" ->
                       /\ fs' = WriteFile(fs, tmp, Content("image", 0))
                       /\ loc' = [loc EXCEPT !.temp_image_path = tmp, !.image_path = tmp]
                       /\ log' = log \o <<FetchOp(outcome), Op("write", tmp), Op("resolve", tmp)>>
                       /\ pc' = "ia2v_audio"
                       /\ exc' = exc
                    [] outcome \in {"transport_error", "status_404", "decode_error"} ->
                       /\ log' = Append(log, FetchOp(outcome))
                       /\ exc' = HTTPException(400)
                       /\ pc' = "ia2v_except"
                       /\ UNCHANGED <<fs, loc>>
                    [] outcome = "save_error" ->
                       /\ loc' = [loc EXCEPT !.temp_image_path = tmp]
                       /\ log' = Append(log, FetchOp(outcome))
                       /\ exc' = HTTPException(400)
                       /\ pc' = "ia2v_except"
                       /\ fs' = fs
                    [] outcome = "save_partial" ->
                       /\ fs' = WriteFile(fs, tmp, Content("partial", 0))
                       /\ loc' = [loc EXCEPT !.temp_image_path = tmp]
                       /\ log' = log \o <<FetchOp(outcome), Op("write", tmp)>>
                       /\ exc' = HTTPException(400)
                       /\ pc' = "ia2v_except"
       ELSE /\ loc' = [loc EXCEPT !.image_path = req.image_url.path]
            /\ log' = Append(log, Op("resolve", req.image_url.path))
            /\ pc' = "ia2v_audio"
            /\ UNCHANGED <<fs, exc, faults>>
    /\ UNCHANGED <<fs0, req, response, nreq>>

\* lines 249-269: download a remote audio; temp_audio_path is named before
\* the request is sent; the inner handler removes the downloaded image
image_audio_to_video_audio ==
    /\ pc = "ia2v_audio"
    /\ IF IsRemote(req.audio_url)
       THEN \E outcome \in FileFetchOutcomes, failAt \in RefusalPoints(fs, <<loc.temp_image_path>>) :
            /\ Spend(B(outcome # "ok") + B(failAt # 0))
            /\ failAt # 0 => outcome # "ok"
            /\ LET tmp == Path(TEMP_DIR, "", uuid4("audio", 0), "mp3")
                   written == CASE outcome = "ok" -> WriteFile(fs, tmp, Content("audio", 2))
                                [] outcome = "write_partial" ->
                                       WriteFile(fs, tmp, Content("partial", 0))
                                [] OTHER -> fs
                   wrote == IF outcome \in {"ok", "write_partial"}
                            THEN <<Op("write", tmp)>> ELSE <<>>
               IN /\ IF outcome = "ok"
                     THEN /\ fs' = written
                          /\ loc' = [loc EXCEPT !.temp_audio_path = tmp, !.audio_path = tmp]
                          /\ log' = log \o <<FetchOp(outcome)>> \o wrote \o <<Op("resolve", tmp)>>
                          /\ exc' = exc
                          /\ pc' = "ia2v_convert"
                     ELSE LET r == remove_each(written, <<loc.temp_image_path>>, 1, failAt)
                          IN /\ fs' = r.fs
                             /\ loc' = [loc EXCEPT !.temp_audio_path = tmp]
                             /\ log' = log \o <<FetchOp(outcome)>> \o wrote \o r.ops
                             /\ exc' = IF r.raised THEN PlainException("OSError")
                                       ELSE HTTPException(400)
                             /\ pc' = "ia2v_except"
       ELSE /\ loc' = [loc EXCEPT !.audio_path = req.audio_url.path]
            /\ log' = Append(log, Op("resolve", req.audio_url.path))
            /\ pc' = "ia2v_convert"
            /\ UNCHANGED <<fs, exc, faults>>
    /\ UNCHANGED <<fs0, req, response, nreq>>

\* subprocess.run of ffmpeg
EngineOutcomes == {"ok", "engine_error", "engine_partial"}

\* lines 73-88 and 105-114: run ffmpeg into a temporary .wav; on failure the
\* handler of convert_audio_format removes the .wav and raises
convert_audio_format_run ==
    /\ pc = "ia2v_convert"
    /\ \E outcome \in EngineOutcomes, failAt \in 0..1 :
        /\ Spend(B(outcome # "ok") + B(failAt # 0))
        /\ failAt # 0 => outcome = "engine_partial"
        /\ LET temp_output_path == Path(TEMP_DIR, "", uuid4("wav", 0), "wav")
           IN /\ loc' = [loc EXCEPT !.temp_output_path = temp_output_path]
              /\ IF outcome = "ok" /\ exists(fs, loc.audio_path)
                 THEN /\ fs' = WriteFile(fs, temp_output_path,
                                         Content("wav", fs[loc.audio_path].dur))
                      /\ log' = log \o <<Op("ffmpeg", temp_output_path)>>
                      /\ exc' = exc
                      /\ pc' = "ia2v_convert_copy"
                 ELSE LET written == IF outcome = "engine_partial"
                                     THEN WriteFile(fs, temp_output_path, Content("partial", 0))
                                     ELSE fs
                          r == remove_each(written, <<temp_output_path>>, 1, failAt)
                      IN /\ fs' = r.fs
                         /\ log' = log \o <<Op("ffmpeg_failed", temp_output_path)>> \o r.ops
                         /\ exc' = IF r.raised THEN PlainException("OSError")
                                   ELSE PlainException("Exception")
                         /\ pc' = "ia2v_except"
    /\ UNCHANGED <<fs0, req, response, nreq>>

\* lines 90-104 and 110-114: copy the .wav into the static directory of the
\* day under a new name, remove the temporary .wav, return the static path
convert_audio_format_copy ==
    /\ pc = "ia2v_convert_copy"
    /\ \E outcome \in CopyOutcomes, refused \in BOOLEAN, failAt \in 0..1 :
        /\ Spend(B(outcome # "ok") + B(refused) + B(failAt # 0))
        /\ (refused => outcome = "ok") /\ (failAt # 0 => (refused \/ outcome # "ok"))
        /\ LET final_path == Path(STATIC_DIR, get_date_directory, uuid4("static_wav", 0), "wav")
               copied == CASE outcome = "ok" ->
                                  WriteFile(fs, final_path, fs[loc.temp_output_path])
                           [] outcome = "copy_partial" ->
                                  WriteFile(fs, final_path, Content("partial", 0))
                           [] OTHER -> fs
               copyOps == IF outcome = "copy_error" THEN <<Op("copy_failed", final_path)>>
                          ELSE <<Op("write", final_path)>>
               \* line 101, reached when the copy succeeded
               first == IF outcome = "ok" THEN os_remove(copied, loc.temp_output_path, refused)
                        ELSE [fs |-> copied, raised |-> TRUE, ops |-> <<>>]
               \* lines 110-114, reached when the copy or line 101 raised
               handler == remove_each(first.fs, <<loc.temp_output_path>>, 1, failAt)
           IN /\ IF ~first.raised
                 THEN /\ fs' = first.fs
                      /\ log' = log \o copyOps \o first.ops
                      /\ loc' = [loc EXCEPT !.converted_audio_path = final_path]
                      /\ exc' = exc
                      /\ pc' = "ia2v_compose"
                 ELSE /\ fs' = handler.fs
                      /\ log' = log \o copyOps \o first.ops \o handler.ops
                      /\ loc' = loc
                      /\ exc' = IF handler.raised THEN PlainException("OSError")
                                ELSE PlainException("Exception")
                      /\ pc' = "ia2v_except"
    /\ UNCHANGED <<fs0, req, response, nreq>>

\* lines 275-288: AudioFileClip, ImageClip, write_videofile(output_path)
image_audio_to_video_compose ==
    /\ pc = "ia2v_compose"
    /\ \E outcome \in ImageAudioComposeOutcomes :
        /\ Spend(B(outcome # "ok"))
        /\ LET \* line 275: AudioFileClip(converted_audio_path)
               audioLoads == outcome # "load_error" /\ exists(fs, loc.converted_audio_path)
               \* line 278: ImageClip(image_path), reached when the audio loaded
               imageLoads == outcome # "image_load_error" /\ exists(fs, loc.image_path)
               loads == <<Op("load", loc.converted_audio_path), Op("load", loc.image_path)>>
           IN CASE ~audioLoads ->
                   /\ fs' = fs
                   /\ log' = Append(log, Op("load_failed", loc.converted_audio_path))
                   /\ exc' = PlainException("Exception")
                   /\ pc' = "ia2v_except"
                [] audioLoads /\ ~imageLoads ->
                   /\ fs' = fs
                   /\ log' = log \o <<Op("load", loc.converted_audio_path),
                                      Op("load_failed", loc.image_path)>>
                   /\ exc' = PlainException("Exception")
                   /\ pc' = "ia2v_except"
                [] audioLoads /\ imageLoads /\ outcome = "ok" ->
                   /\ fs' = WriteFile(fs, loc.output_path,
                                      Content("video", fs[loc.converted_audio_path].dur))
                   /\ log' = log \o loads \o <<Op("encode", loc.output_path)>>
                   /\ pc' = "ia2v_cleanup_inputs"
                   /\ exc' = exc
                [] audioLoads /\ imageLoads /\ outcome = "encode_error" ->
                   /\ fs' = fs
                   /\ log' = log \o loads \o <<Op("encode_failed", loc.output_path)>>
                   /\ exc' = PlainException("Exception")
                   /\ pc' = "ia2v_except"
                [] audioLoads /\ imageLoads /\ outcome = "encode_partial" ->
                   /\ fs' = WriteFile(fs, loc.output_path, Content("partial", 0))
                   /\ log' = log \o loads \o <<Op("encode_failed", loc.output_path)>>
                   /\ exc' = PlainException("Exception")
                   /\ pc' = "ia2v_except"
    /\ UNCHANGED <<fs0, req, loc, response, nreq>>

\* lines 291-294: remove the downloaded image and audio
image_audio_to_video_cleanup_inputs ==
    /\ pc = "ia2v_cleanup_inputs"
    /\ \E failAt \in RefusalPoints(fs, <<loc.temp_image_path, loc.temp_audio_path>>) :
        /\ Spend(B(failAt # 0))
        /\ LET r == remove_each(fs, <<loc.temp_image_path, loc.temp_audio_path>>, 1, failAt)
           IN /\ fs' = r.fs
              /\ log' = log \o r.ops
              /\ IF r.raised
                 THEN exc' = PlainException("OSError") /\ pc' = "ia2v_except"
                 ELSE exc' = exc /\ pc' = "ia2v_probe"
    /\ UNCHANGED <<fs0, req, loc, response, nreq>>

\* line 297: video_info = get_video_info(output_path)
image_audio_to_video_probe ==
    /\ pc = "ia2v_probe"
    /\ \E fails \in BOOLEAN :
        /\ Spend(B(fails))
        /\ /\ loc' = [loc EXCEPT !.video_info = get_video_info(fs, loc.output_path, fails)]
           /\ log' = Append(log, Op(IF loc'.video_info.error THEN "probe_failed" ELSE "probe",
                                    loc.output_path))
    /\ pc' = "ia2v_publish"
    /\ UNCHANGED <<fs, fs0, req, exc, response, nreq>>

\* line 300: video_url = upload_to_oss(output_path)
image_audio_to_video_publish ==
    /\ pc = "ia2v_publish"
    /\ \E outcome \in CopyOutcomes :
        /\ Spend(B(outcome # "ok"))
        /\ LET r == upload_to_oss(fs, loc.output_path, outcome)
           IN /\ fs' = r.fs
              /\ log' = log \o r.ops
              /\ loc' = [loc EXCEPT !.video_url = r.url]
              /\ IF r.raised
                 THEN exc' = PlainException("Exception") /\ pc' = "ia2v_except"
                 ELSE exc' = exc /\ pc' = "ia2v_finish"
    /\ UNCHANGED <<fs0, req, response, nreq>>

\* converted_audio_path.startswith(tempfile.gettempdir())
InTempDir(p) == p.dir = TEMP_DIR

\* the files lines 305-306 remove after the output file
image_audio_to_video_finish_paths(l) ==
    IF InTempDir(l.converted_audio_path) THEN <<l.converted_audio_path>> ELSE <<>>

\* lines 303-308: os.remove(output_path); remove the converted audio when it
\* lies in the temp directory; return the response
image_audio_to_video_finish ==
    /\ pc = "ia2v_finish"
    /\ \E refused \in BOOLEAN, failAt \in RefusalPoints(fs, image_audio_to_video_finish_paths(loc)) :
        /\ Spend(B(refused) + B(failAt # 0))
        /\ failAt # 0 => ~refused
        /\ LET r1 == os_remove(fs, loc.output_path, refused)
               r2 == remove_each(r1.fs, image_audio_to_video_finish_paths(loc), 1, failAt)
           IN IF r1.raised \/ r2.raised
              THEN /\ fs' = IF r1.raised THEN r1.fs ELSE r2.fs
                   /\ log' = log \o r1.ops \o (IF r1.raised THEN <<>> ELSE r2.ops)
                   /\ exc' = PlainException("OSError")
                   /\ pc' = "ia2v_except"
                   /\ response' = response
              ELSE /\ fs' = r2.fs
                   /\ log' = log \o r1.ops \o r2.ops
                   /\ exc' = exc
                   /\ pc' = "done"
                   /\ response' = VideoResponse(loc.video_url, loc.video_info.duration)
    /\ UNCHANGED <<fs0, req, loc, nreq>>

\* the files the except block of image_audio_to_video removes (lines 311-316)
image_audio_to_video_except_paths(l) ==
    <<l.temp_image_path, l.temp_audio_path, l.output_path>>

\* lines 309-318: remove the temporary files, raise HTTPException(500)
image_audio_to_video_except ==
    /\ pc = "ia2v_except"
    /\ \E failAt \in RefusalPoints(fs, image_audio_to_video_except_paths(loc)) :
        /\ Spend(B(failAt # 0))
        /\ LET r == remove_each(fs, image_audio_to_video_except_paths(loc), 1, failAt)
           IN /\ fs' = r.fs
              /\ log' = log \o r.ops
              /\ response' = IF r.raised THEN ErrorResponse(PlainException("OSError"))
                             ELSE ErrorResponse(HTTPException(500))
    /\ pc' = "done"
    /\ UNCHANGED <<fs0, req, loc, exc, nreq>>

\* --------------------------------------------------- concatenate_videos
\* lines 321-331: the output name, temp_files = [], clips = []
concatenate_videos_begin ==
    /\ pc = "concatenate_videos"
    /\ loc' = [loc EXCEPT !.output_path = Path(OUTPUT_DIR, "", uuid4("output", 0), "mp4"),
                          !.temp_files = <<>>, !.clips = <<>>, !.idx = 1]
    /\ pc' = "cat_next"
    /\ UNCHANGED <<fs, fs0, req, exc, response, log, nreq, faults>>

\* lines 332-358: the next url of the list; a remote video is streamed into
\* a temporary file, which is appended to temp_files once it is complete
concatenate_videos_resolve ==
    /\ pc = "cat_next"
    /\ loc.idx <= Len(req.video_urls)
    /\ IF IsRemote(req.video_urls[loc.idx])
       THEN \E outcome \in FileFetchOutcomes :
            /\ Spend(B(outcome # "ok"))
            /\ LET local_video_path == Path(TEMP_DIR, "", uuid4("video", loc.idx), "mp4")
               IN /\ CASE outcome = "ok" ->
                          /\ fs' = WriteFile(fs, local_video_path, Content("video", 2))
                          /\ loc' = [loc EXCEPT !.local_video_path = local_video_path,
                                                !.temp_files = Append(@, local_video_path),
                                                !.video_path = local_video_path]
                          /\ log' = log \o <<FetchOp(outcome), Op("write", local_video_path),
                                             Op("resolve", local_video_path)>>
                          /\ exc' = exc
                          /\ pc' = "cat_load"
                       [] outcome = "write_partial" ->
                          /\ fs' = WriteFile(fs, local_video_path, Content("partial", 0))
                          /\ loc' = [loc EXCEPT !.local_video_path = local_video_path]
                          /\ log' = log \o <<FetchOp(outcome), Op("write", local_video_path)>>
                          /\ exc' = HTTPException(400)
                          /\ pc' = "cat_except"
                       [] OTHER ->
                          /\ fs' = fs
                          /\ loc' = [loc EXCEPT !.local_video_path = local_video_path]
                          /\ log' = Append(log, FetchOp(outcome))
                          /\ exc' = HTTPException(400)
                          /\ pc' = "cat_except"
       ELSE /\ loc' = [loc EXCEPT !.local_video_path = NoPath,
                                  !.video_path = req.video_urls[loc.idx].path]
            /\ log' = Append(log, Op("resolve", req.video_urls[loc.idx].path))
            /\ pc' = "cat_load"
            /\ UNCHANGED <<fs, exc, faults>>
    /\ UNCHANGED <<fs0, req, response, nreq>>

\* VideoFileClip(path)
LoadOutcomes == {"ok", "load_error"}

\* lines 362-364: clip.volumex(10**(volume_db/20)) when volume_db != 0;
\* the variant drops the clip volumex returns and keeps the unadjusted one
volumex_dropped(clip, volume_db) == clip
volumex(clip, volume_db) ==
    IF volume_db # 0 THEN [clip EXCEPT !.gain_db = volume_db] ELSE clip

\* lines 361-365: load the clip, adjust its volume, append it to clips
concatenate_videos_load ==
    /\ pc = "cat_load"
    /\ \E outcome \in LoadOutcomes :
        /\ Spend(B(outcome # "ok"))
        /\ IF outcome = "ok" /\ exists(fs, loc.video_path)
           THEN LET clip == [path |-> loc.video_path, dur |-> fs[loc.video_path].dur,
                             gain_db |-> 0]
                IN /\ loc' = [loc EXCEPT !.clips = Append(@, volumex(clip, req.volume_db)),
                                         !.idx = @ + 1]
                   /\ log' = Append(log, Op("load", loc.video_path))
                   /\ exc' = exc
                   /\ pc' = "cat_next"
           ELSE /\ loc' = loc
                /\ log' = Append(log, Op("load_failed", loc.video_path))
                /\ exc' = PlainException("Exception")
                /\ pc' = "cat_except"
    /\ UNCHANGED <<fs, fs0, req, response, nreq>>

\* lines 367-368: after the loop, `if not clips: raise HTTPException(400)`
concatenate_videos_check ==
    /\ pc = "cat_next"
    /\ loc.idx > Len(req.video_urls)
    /\ IF loc.clips = <<>>
       THEN exc' = HTTPException(400) /\ pc' = "cat_except"
       ELSE exc' = exc /\ pc' = "cat_compose"
    /\ UNCHANGED <<fs, fs0, req, loc, response, log, nreq, faults>>

RECURSIVE total_duration(_)
total_duration(clips) ==
    IF clips = <<>> THEN 0 ELSE Head(clips).dur + total_duration(Tail(clips))

\* lines 371-377: concatenate_videoclips(clips).write_videofile(output_path)
concatenate_videos_compose ==
    /\ pc = "cat_compose"
    /\ \E outcome \in ComposeOutcomes \ {"load_error"} :
        /\ Spend(B(outcome # "ok"))
        /\ CASE outcome = "ok" ->
                   /\ fs' = WriteFile(fs, loc.output_path,
                                      Content("video", total_duration(loc.clips)))
                   /\ log' = Append(log, Op("encode", loc.output_path))
                   /\ pc' = "cat_probe"
                   /\ exc' = exc
             [] outcome = "encode_partial" ->
                   /\ fs' = WriteFile(fs, loc.output_path, Content("partial", 0))
                   /\ log' = Append(log, Op("encode_failed", loc.output_path))
                   /\ exc' = PlainException("Exception")
                   /\ pc' = "cat_except"
             [] OTHER ->
                   /\ fs' = fs
                   /\ log' = Append(log, Op("encode_failed", loc.output_path))
                   /\ exc' = PlainException("Exception")
                   /\ pc' = "cat_except"
    /\ UNCHANGED <<fs0, req, loc, response, nreq>>

\* line 380: video_info = get_video_info(output_path)
concatenate_videos_probe ==
    /\ pc = "cat_probe"
    /\ \E fails \in BOOLEAN :
        /\ Spend(B(fails))
        /\ /\ loc' = [loc EXCEPT !.video_info = get_video_info(fs, loc.output_path, fails)]
           /\ log' = Append(log, Op(IF loc'.video_info.error THEN "probe_failed" ELSE "probe",
                                    loc.output_path))
    /\ pc' = "cat_publish"
    /\ UNCHANGED <<fs, fs0, req, exc, response, nreq>>

\* line 383: video_url = upload_to_oss(output_path)
concatenate_videos_publish ==
    /\ pc = "cat_publish"
    /\ \E outcome \in CopyOutcomes :
        /\ Spend(B(outcome # "ok"))
        /\ LET r == upload_to_oss(fs, loc.output_path, outcome)
           IN /\ fs' = r.fs
              /\ log' = log \o r.ops
              /\ loc' = [loc EXCEPT !.video_url = r.url]
              /\ IF r.raised
                 THEN exc' = PlainException("Exception") /\ pc' = "cat_except"
                 ELSE exc' = exc /\ pc' = "cat_finish"
    /\ UNCHANGED <<fs0, req, response, nreq>>

\* the files both cleanup blocks of concatenate_videos remove
\* (lines 386-392 and 397-403); the variant removes the published copy too
concatenate_videos_cleanup_paths_published(l) ==
    l.temp_files \o <<l.output_path, l.video_url.path>>
concatenate_videos_cleanup_paths(l) == l.temp_files \o <<l.output_path>>

\* lines 386-394: remove temp_files and the output file, return the response
concatenate_videos_finish ==
    /\ pc = "cat_finish"
    /\ \E failAt \in RefusalPoints(fs, concatenate_videos_cleanup_paths(loc)) :
        /\ Spend(B(failAt # 0))
        /\ LET r == remove_each(fs, concatenate_videos_cleanup_paths(loc), 1, failAt)
           IN /\ fs' = r.fs
              /\ log' = log \o r.ops
              /\ IF r.raised
                 THEN /\ exc' = PlainException("OSError")
                      /\ pc' = "cat_except"
                      /\ response' = response
                 ELSE /\ exc' = exc
                      /\ pc' = "done"
                      /\ response' = VideoResponse(loc.video_url, loc.video_info.duration)
    /\ UNCHANGED <<fs0, req, loc, nreq>>

\* lines 395-405: remove temp_files and the output file, raise HTTPException(500)
concatenate_videos_except ==
    /\ pc = "cat_except"
    /\ \E failAt \in RefusalPoints(fs, concatenate_videos_cleanup_paths(loc)) :
        /\ Spend(B(failAt # 0))
        /\ LET r == remove_each(fs, concatenate_videos_cleanup_paths(loc), 1, failAt)
           IN /\ fs' = r.fs
              /\ log' = log \o r.ops
              /\ response' = IF r.raised THEN ErrorResponse(PlainException("OSError"))
                             ELSE ErrorResponse(HTTPException(500))
    /\ pc' = "done"
    /\ UNCHANGED <<fs0, req, loc, exc, nreq>>

Next ==
    \/ Receive
    \/ image_to_video_begin
    \/ image_to_video_resolve
    \/ image_to_video_compose
    \/ image_to_video_cleanup_image
    \/ image_to_video_probe
    \/ image_to_video_publish
    \/ image_to_video_finish
    \/ image_to_video_except
    \/ image_audio_to_video_begin
    \/ image_audio_to_video_image
    \/ image_audio_to_video_audio
    \/ convert_audio_format_run
    \/ convert_audio_format_copy
    \/ image_audio_to_video_compose
    \/ image_audio_to_video_cleanup_inputs
    \/ image_audio_to_video_probe
    \/ image_audio_to_video_publish
    \/ image_audio_to_video_finish
    \/ image_audio_to_video_except
    \/ concatenate_videos_begin
    \/ concatenate_videos_resolve
    \/ concatenate_videos_load
    \/ concatenate_videos_check
    \/ concatenate_videos_compose
    \/ concatenate_videos_probe
    \/ concatenate_videos_publish
    \/ concatenate_videos_finish
    \/ concatenate_videos_except

Spec == Init /\ [][Next]_vars

\* ======================================================================
\* Properties
\* ======================================================================
HasOp(o) == \E i \in DOMAIN log : log[i].op = o
HasAnyOp(S) == \E i \in DOMAIN log : log[i].op \in S

FetchOps == {"fetch_200", "fetch_404", "fetch_error"}
ResolveOps == FetchOps \cup {"resolve"}
EngineOps == {"ffmpeg", "ffmpeg_failed", "encode", "encode_failed"}
EncodeOps == {"encode", "encode_failed"}
ProbeOps == {"probe", "probe_failed"}
PublishOps == {"publish", "publish_failed"}
CleanupOps == {"remove", "remove_failed"}

\* the files the current request created and that still exist
Created == (DOMAIN fs) \ (DOMAIN fs0)
StaticCreated == {p \in Created : p.dir = STATIC_DIR}

\* the temporary files the handler keeps track of
Tracked ==
    ({loc.temp_image_path, loc.temp_audio_path, loc.output_path}
        \cup {loc.temp_files[i] : i \in DOMAIN loc.temp_files}) \ {NoPath}

\* a parameter outside the constraints duration > 0, volume_db in [-20, 20],
\* video_urls non-empty
ViolatesConstraint(r) ==
    \/ r.kind = "image_to_video" /\ r.duration <= 0
    \/ r.kind \in {"image_audio_to_video", "concatenate_videos"} /\ ~ValidVolume(r.volume_db)
    \/ r.kind = "concatenate_videos" /\ r.video_urls = <<>>

\* C1 (as claimed): when a handler returns, and no removal was refused, no
\* file the request created is left in the temp or the output directory.
\* Violated: a video download that fails part-way is not in temp_files.
C1_NoTemporaryFileLeft ==
    (pc = "done" /\ ~HasOp("remove_failed")) =>
        \A p \in Created : p.dir \notin {TEMP_DIR, OUTPUT_DIR}

\* C2 (as claimed): nothing is written into the static directory before the
\* encode of the request has succeeded, and a request that ends in failure
\* leaves the static directory as it was.
\* Violated: convert_audio_format copies its .wav into the static directory
\* before the handler composes, and nothing removes it.
C2_NoDurableWriteBeforeCompose ==
    /\ StaticCreated # {} => HasOp("encode")
    /\ (pc = "done" /\ response.status # 200) => StaticCreated = {}

\* C3 (as claimed): the file convert_audio_format returned is deleted when
\* the handler returns.
\* Violated: the file lies in the static directory, so the test of line 305
\* is false and lines 305-306 never remove it; the except block does not
\* name it.
C3_ConvertedAudioDeleted ==
    (pc = "done" /\ loc.converted_audio_path # NoPath) =>
        ~exists(fs, loc.converted_audio_path)

\* C4 (as claimed): a request whose parameter violates a constraint is
\* rejected with a validation error, without any fetch and without any file.
C4_RejectedBeforeAllocation ==
    ViolatesConstraint(req) =>
        /\ ~HasAnyOp(FetchOps)
        /\ Created = {}
        /\ pc = "done" => response.status = 422

\* C5 (as claimed): a fetch that returned 404 ends the request with the
\* fetch error (status 400, not the generic 500) and nothing published.
C5_FetchErrorOn404 ==
    (pc = "done" /\ HasOp("fetch_404")) =>
        /\ response.status = 400
        /\ StaticCreated = {}

\* C6 (as claimed): concatenate with an empty list fails with the
\* empty-input error (status 400, not the generic 500), without any call of
\* the engine and without any file.
C6_EmptyInputError ==
    (pc = "done" /\ req.kind = "concatenate_videos" /\ req.video_urls = <<>>
        /\ SchemaAccepts(req)) =>
        /\ response.status = 400
        /\ ~HasAnyOp(EngineOps \cup {"load", "load_failed"})
        /\ Created = {}

\* the stage of an operation: 1 resolve, 2 transform/compose, 3 probe,
\* 4 publish, 5 cleanup; 0 for the writes that belong to another operation
Stage(o) ==
    CASE o.op \in ResolveOps -> 1
      [] o.op \in EngineOps \cup {"load", "load_failed"} -> 2
      [] o.op \in ProbeOps -> 3
      [] o.op \in PublishOps -> 4
      [] o.op \in CleanupOps /\ o.path \in Tracked -> 5
      [] OTHER -> 0

\* C7 (as claimed): the operations of a request follow the stage order: all
\* references are resolved before the first load, and no tracked temporary
\* file is removed before probe and publish.
C7_StagesInOrder ==
    \A i, j \in DOMAIN log :
        (i < j /\ Stage(log[i]) # 0 /\ Stage(log[j]) # 0) => Stage(log[i]) <= Stage(log[j])

\* C7 (amended): a reference is resolved before it is loaded and every
\* reference is resolved before the engine runs; the encode precedes the
\* probe, the probe the publish; the output file is not removed before the
\* publish; a success response follows a publish.
C7_EncodeProbePublishInOrder ==
    /\ \A j \in DOMAIN log :
        /\ (log[j].op = "load" /\ log[j].path.dir \in {LOCAL_DIR, TEMP_DIR}) =>
                \E i \in 1..(j - 1) : log[i] = Op("resolve", log[j].path)
        /\ log[j].op \in ProbeOps => \E i \in 1..(j - 1) : log[i].op = "encode"
        /\ log[j].op \in PublishOps => \E i \in 1..(j - 1) : log[i].op \in ProbeOps
    /\ \A i, j \in DOMAIN log :
        i < j =>
            /\ log[j].op \in ResolveOps =>
                    log[i].op \notin EngineOps \cup ProbeOps \cup PublishOps
            /\ log[j].op \in EncodeOps => log[i].op \notin ProbeOps \cup PublishOps
            /\ log[j].op \in ProbeOps => log[i].op \notin PublishOps
            /\ log[j].op \in PublishOps =>
                    ~(log[i].op \in CleanupOps /\ log[i].path = loc.output_path)
    /\ response.status = 200 => HasOp("publish")

\* a concatenation of two downloaded videos returned its response: the
\* second video was resolved after the first was loaded
C7_Witness ==
    /\ pc = "done"
    /\ response.status = 200
    /\ req.kind = "concatenate_videos"
    /\ Len(loc.temp_files) = 2

\* C8 (as claimed): a refused removal is not propagated and does not change
\* the outcome, and the removal of every tracked file is attempted.
C8_CleanupBestEffort ==
    pc = "done" =>
        /\ HasOp("publish") => response.status = 200
        /\ response.error # "OSError"
        /\ \A p \in Tracked :
            exists(fs, p) => \E i \in DOMAIN log : log[i] = Op("remove_failed", p)

\* C9: a file named by a local reference exists with its content as long as
\* the service runs, and no handler tries to remove it.
C9_LocalInputUntouched ==
    \A p \in {LocalImage, LocalAudio, LocalVideo} :
        /\ exists(fs, p)
        /\ fs[p] = fs0[p]
        /\ fs[p].kind = "caller"
        /\ \A i \in DOMAIN log : log[i].op \in CleanupOps => log[i].path # p

\* a request with a local image was composed from it, failed, and its except
\* block removed the output file
C9_Witness ==
    /\ pc = "done"
    /\ req.image_url = LocalUrl(LocalImage)
    /\ log # <<>> /\ \E i \in DOMAIN log : log[i] = Op("load", LocalImage)
    /\ response.status = 500
    /\ HasOp("remove")

\* C10: after a failed probe the handler goes on to publish; when it then
\* returns its response, the duration is 0 and the published file exists.
C10_ProbeFailureNotFatal ==
    /\ (log # <<>> /\ log[Len(log)].op = "probe_failed") =>
            /\ pc \in {"i2v_publish", "ia2v_publish", "cat_publish"}
            /\ exc = NoExc
    /\ (pc = "done" /\ response.status = 200 /\ HasOp("probe_failed")) =>
            /\ response.duration = 0
            /\ exists(fs, response.video_url.path)
            /\ response.video_url.path.dir = STATIC_DIR

\* a request for a 3 second video returned its response after a failed probe
C10_Witness ==
    /\ pc = "done"
    /\ response.status = 200
    /\ HasOp("probe_failed")
    /\ req.duration = 3

\* ---------------------------------------------------------------- C11
\* the operations that write into the static directory
DurableWriteOps == {"publish", "publish_failed", "write", "copy_failed"}
IsDurableWrite(o) == o.op \in DurableWriteOps /\ o.path.dir = STATIC_DIR

\* C11: every write into the static directory goes to a path that held no
\* file before: not one stored by an earlier request, not one this request
\* wrote earlier; and a file stored by an earlier request keeps its content.
C11_DurableWritesFresh ==
    /\ \A i \in DOMAIN log :
          IsDurableWrite(log[i]) =>
              /\ log[i].path \notin DOMAIN fs0
              /\ \A j \in 1..(i - 1) :
                    IsDurableWrite(log[j]) => log[j].path # log[i].path
    /\ \A p \in DOMAIN fs0 :
          (p.dir = STATIC_DIR /\ exists(fs, p)) => fs[p] = fs0[p]

\* two requests have published a video on the same date
C11_Witness ==
    /\ pc = "done"
    /\ HasOp("publish")
    /\ \E p \in DOMAIN fs0, q \in StaticCreated :
          /\ p.dir = STATIC_DIR /\ p.ext = "mp4" /\ q.ext = "mp4"
          /\ p.day = q.day /\ exists(fs, p)
          /\ fs[p].kind = "video" /\ fs[q].kind = "video"

\* ---------------------------------------------------------------- C12
\* C12: a file in the temp or the output directory that existed when the
\* request started (left by an earlier request) is never read, written or
\* removed by this request: it is still there, unchanged, and no operation
\* of this request names it.
C12_OwnTemporaryFilesOnly ==
    /\ \A p \in DOMAIN fs0 :
          p.dir \in {TEMP_DIR, OUTPUT_DIR} => (exists(fs, p) /\ fs[p] = fs0[p])
    /\ \A i \in DOMAIN log :
          log[i].path.dir \in {TEMP_DIR, OUTPUT_DIR} => log[i].path \notin DOMAIN fs0

\* an earlier request left a temporary file behind, and this request has
\* created and removed temporary files of its own
C12_Witness ==
    /\ pc = "done"
    /\ \E p \in DOMAIN fs0 : p.dir \in {TEMP_DIR, OUTPUT_DIR}
    /\ \E i \in DOMAIN log : log[i].op = "remove" /\ log[i].path.dir = TEMP_DIR
    /\ \E i \in DOMAIN log : log[i].op = "remove" /\ log[i].path.dir = OUTPUT_DIR

\* ---------------------------------------------------------------- C13
\* the states right after upload_to_oss returned, before the handler removes
\* the output file
AfterPublish == pc \in {"i2v_finish", "ia2v_finish", "cat_finish"}

\* C13: publishing copies: when upload_to_oss has returned, the output file
\* still exists next to its copy in the static directory, both with the same
\* content; the output file is removed by the handler, after the publish.
C13_PublishCopies ==
    /\ AfterPublish =>
          /\ exists(fs, loc.output_path)
          /\ exists(fs, loc.video_url.path)
          /\ loc.video_url.path # loc.output_path
          /\ fs[loc.video_url.path] = fs[loc.output_path]
    /\ \A i \in DOMAIN log :
          (log[i].op = "remove" /\ log[i].path = loc.output_path /\ HasOp("publish")) =>
              \E j \in 1..(i - 1) : log[j].op = "publish"

\* upload_to_oss has returned and the handler has not yet removed the output
C13_Witness ==
    /\ AfterPublish
    /\ HasOp("publish")
    /\ exists(fs, loc.output_path)

\* ---------------------------------------------------------------- C14
\* convert_audio_format was called and raised
ConvertFailed ==
    /\ pc \in {"ia2v_except", "done"}
    /\ HasAnyOp({"ffmpeg", "ffmpeg_failed"})
    /\ loc.converted_audio_path = NoPath

\* C14 (as claimed): when convert_audio_format has raised, and no removal
\* was refused, none of the .wav files it created exists any more, in the
\* temp directory or in the static directory.
\* Violated: a copy into the static directory that fails part-way leaves
\* final_path behind; the handlers of lines 103-114 remove temp_output_path only.
C14_ConvertFailureLeavesNothing ==
    (ConvertFailed /\ ~HasOp("remove_failed")) =>
        \A p \in Created : p.ext # "wav"

\* ---------------------------------------------------------------- C15
\* the clip built for entry i of video_urls: loaded from the referenced file,
\* or from the temporary file entry i was downloaded to
ClipOfEntry(clip, i) ==
    IF IsRemote(req.video_urls[i])
    THEN clip.path.dir = TEMP_DIR /\ clip.path.name.idx = i
    ELSE clip.path = req.video_urls[i].path

\* C15: concatenate_videos builds clips in request order, clip i from entry
\* i of video_urls; every clip carries the gain volume_db when volume_db is
\* not 0 and no gain when it is 0; the composition starts with one clip per
\* entry.
C15_ClipsInRequestOrder ==
    req.kind = "concatenate_videos" =>
        /\ Len(loc.clips) <= Len(req.video_urls)
        /\ \A i \in DOMAIN loc.clips :
              /\ ClipOfEntry(loc.clips[i], i)
              /\ loc.clips[i].gain_db = IF req.volume_db # 0 THEN req.volume_db ELSE 0
        /\ pc \in {"cat_compose", "cat_probe", "cat_publish", "cat_finish"} =>
              Len(loc.clips) = Len(req.video_urls)

\* the composition of a remote and a local video, in one of the two orders,
\* with a gain of 6 dB, is about to start
C15_Witness ==
    /\ pc = "cat_compose"
    /\ Len(loc.clips) = 2
    /\ req.volume_db = 6
    /\ IsRemote(req.video_urls[1]) # IsRemote(req.video_urls[2])

\* ---------------------------------------------------------------- C16
\* a handler is inside its body: its next step is a network fetch, an engine
\* invocation, a probe, a file copy or a removal
HandlerRunning == pc \notin {"idle", "done"}

\* C16 (as claimed): while a handler is inside its body, the server can
\* start running the handler of another request.
\* Violated: the handlers are coroutines (async def) that never await, so
\* the event loop runs no other handler until the running one has returned.
C16_OthersCanProgress ==
    (HandlerRunning /\ nreq < MaxRequests) => ENABLED Receive

\* ---------------------------------------------------------------- C17
\* C17 (as claimed): when the body of a handler raised HTTPException(400),
\* the caller receives status 400.
\* Violated: the raise is inside the try of the handler, whose
\* `except Exception` replaces it by HTTPException(500).
C17_Status400Preserved ==
    (pc = "done" /\ exc = HTTPException(400)) => response.status = 400

\* ---------------------------------------------------------------- C18
\* C18: the video_url of a success response names a video file that exists
\* in the static directory when the handler returns, written by the publish
\* of this request; and every file an earlier request stored in the static
\* directory is still there.
C18_ReturnedVideoStored ==
    /\ response.status = 200 =>
          /\ response.video_url.path.dir = STATIC_DIR
          /\ \E i \in DOMAIN log : log[i] = Op("publish", response.video_url.path)
          /\ exists(fs, response.video_url.path)
          /\ fs[response.video_url.path].kind = "video"
    /\ \A p \in DOMAIN fs0 : p.dir = STATIC_DIR => exists(fs, p)

\* a concatenation returns its response after its cleanup, while the video
\* an earlier request published is in the static directory
C18_Witness ==
    /\ pc = "done"
    /\ response.status = 200
    /\ req.kind = "concatenate_videos"
    /\ HasOp("remove")
    /\ \E p \in DOMAIN fs0 : p.dir = STATIC_DIR /\ p.ext = "mp4" /\ fs0[p].kind = "video"

====
